---- MODULE Spec2Model ----
(***************************************************************************)
(* A model of the intrusive AVL tree of avl.h / avl.c and of the owner     *)
(* records and comparator of test-main.c.                                  *)
(*                                                                         *)
(* A node is a number of Nodes; the null pointer is NIL.  The fields of    *)
(* avl_node_t are the functions avl_children, avl_parent and avl_balance,  *)
(* the field of avl_root_t is avl_root, and the key of the owner record    *)
(* (struct int_node) is key.  The library functions are operators on a     *)
(* heap record h that holds these fields; each public mutator is one       *)
(* action that applies the whole function.                                 *)
(***************************************************************************)
EXTENDS Integers, Sequences, FiniteSets

\* ------------------------------------------------------------------ bounds

\* Number of distinct keys of the general specification Spec.
MaxKey == 7

\* Largest number of keys of the insert-ascending-then-remove-all runs (SpecSeq).
SeqN == 7

\* Removals SpecDeep performs on the tree it has built.
MaxRemovals == 3

\* Removals in a run of Spec and of SpecLoop.
AnyRemovals == 2

\* ------------------------------------------------------------- the memory

NIL == 0

\* The content of storage nobody has written (malloc'ed or freed): indeterminate.
JUNK == -1

\* The keys, in the order SpecDeep inserts them: level by level, the sparsest
\* AVL tree of height 4 (12 nodes): 5 at the root, on its left 3 over 2, 4
\* and 1, on its right 8 over 7, 10, then 6, 9, 11, then 12.
DeepOrder == <<5, 3, 8, 2, 4, 7, 10, 1, 6, 9, 11, 12>>

Max(a, b) == IF a > b THEN a ELSE b

NumNodes == Max(Max(MaxKey, SeqN), Len(DeepOrder))

Nodes == 1..NumNodes

VARIABLES
    avl_root,       \* avl_root_t.avl_root
    avl_children,   \* avl_node_t.avl_children[2], per node
    avl_parent,     \* avl_node_t.avl_parent, per node
    avl_balance,    \* avl_node_t.avl_balance, per node
    key,            \* struct int_node.key, per node
    live,           \* the nodes the caller has inserted and not removed
    stale,          \* the nodes the caller has removed (freed with all, at the end)
    last,           \* the last library call: name, argument, result, rotations
    plan,           \* the caller's script (which specification, what is left)
    frame           \* the library call in progress, where calls run step by step

vars ==
    <<avl_root, avl_children, avl_parent, avl_balance, key, live, stale, last, plan,
      frame>>

\* The fields of the tree as one value, the form the library operators take.
Heap ==
    [avl_root |-> avl_root, avl_children |-> avl_children,
     avl_parent |-> avl_parent, avl_balance |-> avl_balance,
     key |-> key, log |-> <<>>, fault |-> FALSE]

\* ------------------------------------------------------- avl.h, test-main.c

\* #define avl_cmp2idx(cmp) (!((cmp) < 0))
avl_cmp2idx(cmp) == IF cmp < 0 THEN 0 ELSE 1

\* #define avl_balance2idx(cmp) (!((cmp) < 0))
avl_balance2idx(cmp) == IF cmp < 0 THEN 0 ELSE 1

\* #define avl_idx2cmp(idx) (!(idx)?-1:1)
\* (faulty variant: the side is ignored)
avl_idx2cmp_always_right(idx) == 1

avl_idx2cmp(idx) == IF idx = 0 THEN -1 ELSE 1

\* !idx for an index (or for a pointer: 1 exactly when it is zero)
Not(idx) == IF idx = 0 THEN 1 ELSE 0

\* The comparator of the test: the order of the owner records' keys.
\* (faulty variant: equal keys compare as greater)
avl_cmp_equal_is_greater(h, a, b) ==
    IF h.key[a] < h.key[b] THEN -1 ELSE 1

avl_cmp(h, a, b) ==
    IF h.key[a] < h.key[b] THEN -1
    ELSE IF h.key[a] > h.key[b] THEN 1
    ELSE 0

avl_which_child(h, node) ==
    LET parent == h.avl_parent[node]
    IN  IF parent = NIL THEN -1
        ELSE IF node = h.avl_children[parent][0] THEN 0
        ELSE 1

avl_abs_balance(balance) == IF balance < 0 THEN balance * (-1) ELSE balance

\* ------------------------------------------------------------ field writes

SetChild(h, node, idx, v) == [h EXCEPT !.avl_children[node][idx] = v]

SetParent(h, node, v) == [h EXCEPT !.avl_parent[node] = v]

SetBalance(h, node, v) == [h EXCEPT !.avl_balance[node] = v]

\* *slot = v, slot being &avlroot->avl_root when parent is null and
\* parent->avl_children + idx otherwise.
SetSlot(h, parent, idx, v) ==
    IF parent = NIL THEN [h EXCEPT !.avl_root = v]
    ELSE SetChild(h, parent, idx, v)

\* if (B) B->avl_parent = R;
\* (faulty variant: the back-reference is not fixed up)
Reparent_forgotten(h, B, R) == h

Reparent(h, B, R) == IF B = NIL THEN h ELSE SetParent(h, B, R)

\* ------------------------------------------------------------- avl_search

RECURSIVE search_loop(_, _, _)
search_loop(h, probe, retval) ==
    IF retval = NIL THEN NIL
    ELSE LET cmp == avl_cmp(h, probe, retval)
         IN  IF cmp = 0 THEN retval
             ELSE search_loop(h, probe, h.avl_children[retval][avl_cmp2idx(cmp)])

\* (faulty variant: no descent)
avl_search_root_only(h, probe) ==
    IF h.avl_root # NIL /\ avl_cmp(h, probe, h.avl_root) = 0 THEN h.avl_root ELSE NIL

avl_search(h, probe) == search_loop(h, probe, h.avl_root)

\* ---------------------------------------------------------- avl_prev_next

\* while (node->avl_children[!which_child]) node = node->avl_children[!which_child];
RECURSIVE prev_next_descend(_, _, _)
prev_next_descend(h, node, idx) ==
    IF h.avl_children[node][idx] # NIL
    THEN prev_next_descend(h, h.avl_children[node][idx], idx)
    ELSE node

\* while (parent && parent->avl_children[which_child] == node) { ... }
\* (faulty variant: the climb stops at the parent)
prev_next_climb_one_step(h, node, parent, which_child) == parent

RECURSIVE prev_next_climb(_, _, _, _)
prev_next_climb(h, node, parent, which_child) ==
    IF parent # NIL /\ h.avl_children[parent][which_child] = node
    THEN prev_next_climb(h, parent, h.avl_parent[parent], which_child)
    ELSE parent

\* (faulty variant: the child on the target side is returned as it is)
avl_prev_next_no_descent(h, node, dir) ==
    LET which_child == avl_cmp2idx(dir)
    IN  IF h.avl_children[node][which_child] # NIL
        THEN h.avl_children[node][which_child]
        ELSE prev_next_climb(h, node, h.avl_parent[node], which_child)

avl_prev_next(h, node, dir) ==
    LET which_child == avl_cmp2idx(dir)
    IN  IF h.avl_children[node][which_child] # NIL
        THEN prev_next_descend(h, h.avl_children[node][which_child], Not(which_child))
        ELSE prev_next_climb(h, node, h.avl_parent[node], which_child)

RECURSIVE leftmost_rightmost_loop(_, _, _, _)
leftmost_rightmost_loop(h, prev, node, which_child) ==
    IF node # NIL
    THEN leftmost_rightmost_loop(h, node, h.avl_children[node][which_child], which_child)
    ELSE prev

avl_leftmost_rightmost(h, dir) ==
    leftmost_rightmost_loop(h, NIL, h.avl_root, avl_cmp2idx(dir))

avl_first(h) == avl_leftmost_rightmost(h, -1)

avl_last(h) == avl_leftmost_rightmost(h, 1)

avl_prev(h, node) == avl_prev_next(h, node, -1)

avl_next(h, node) == avl_prev_next(h, node, 1)

\* ----------------------------------------------------------- avl_rebalance

\* One entry of the log of avl_rebalance calls of a library call.
RebalanceCall(h, node, child, case, ret) ==
    [node |-> node, balance |-> h.avl_balance[node], child |-> child,
     child_balance |-> h.avl_balance[child],
     inner |-> h.avl_children[child][Not(avl_balance2idx(h.avl_balance[node]))],
     case |-> case, ret |-> ret]

Logged(h, call) == [h EXCEPT !.log = Append(@, call)]

\* Case 1 (avl.c 181-221): single rotation, both balances become 0.
\* (faulty variant: the balances are left as they were)
rebalance_case1_keeps_balance(h, R, S, which_child) ==
    LET R_parent == h.avl_parent[R]
        B == h.avl_children[S][Not(which_child)]
        slot == avl_which_child(h, R)
        h1 == SetSlot(h, R_parent, slot, S)
        h2 == SetParent(h1, S, R_parent)
        h3 == SetParent(h2, R, S)
        h4 == SetChild(h3, S, Not(which_child), R)
        h5 == SetChild(h4, R, which_child, B)
    IN  Reparent(h5, B, R)

rebalance_case1(h, R, S, which_child) ==
    LET R_parent == h.avl_parent[R]
        B == h.avl_children[S][Not(which_child)]
        slot == avl_which_child(h, R)
        h1 == SetSlot(h, R_parent, slot, S)
        h2 == SetParent(h1, S, R_parent)
        h3 == SetParent(h2, R, S)
        h4 == SetChild(h3, S, Not(which_child), R)
        h5 == SetChild(h4, R, which_child, B)
        h6 == Reparent(h5, B, R)
        h7 == SetBalance(h6, R, 0)
    IN  SetBalance(h7, S, h7.avl_balance[R])

\* The balances after the double rotation (avl.c 295-305).
\* (faulty variant: the balance of Q is ignored)
rebalance_case2_balances_all_zero(h, R, S, Q) ==
    SetBalance(SetBalance(SetBalance(h, S, 0), R, 0), Q, 0)

rebalance_case2_balances(h, R, S, Q) ==
    LET hb == IF h.avl_balance[Q] = h.avl_balance[S]
              THEN SetBalance(SetBalance(h, S, h.avl_balance[Q] * (-1)), R, 0)
              ELSE IF h.avl_balance[Q] # 0
              THEN SetBalance(SetBalance(h, R, h.avl_balance[Q] * (-1)), S, 0)
              ELSE SetBalance(SetBalance(h, S, 0), R, 0)
    IN  SetBalance(hb, Q, 0)

\* Case 2 (avl.c 222-306): double rotation.  Q is dereferenced unchecked.
rebalance_case2(h, R, S, which_child) ==
    LET Q == h.avl_children[S][Not(which_child)]
    IN  IF Q = NIL THEN [h EXCEPT !.fault = TRUE]
        ELSE
        LET R_parent == h.avl_parent[R]
            B == h.avl_children[Q][Not(which_child)]
            C == h.avl_children[Q][which_child]
            slot == avl_which_child(h, R)
            h1 == SetSlot(h, R_parent, slot, Q)
            h2 == SetParent(h1, Q, R_parent)
            h3 == SetChild(h2, R, which_child, B)
            h4 == Reparent(h3, B, R)
            h5 == SetChild(h4, S, Not(which_child), C)
            h6 == Reparent(h5, C, S)
            h7 == SetChild(h6, Q, Not(which_child), R)
            h8 == SetParent(h7, R, Q)
            h9 == SetChild(h8, Q, which_child, S)
            h10 == SetParent(h9, S, Q)
        IN  rebalance_case2_balances(h10, R, S, Q)

\* Case 3 (avl.c 307-348): single rotation, the heavy child was balanced.
rebalance_case3(h, R, S, which_child) ==
    LET R_parent == h.avl_parent[R]
        B == h.avl_children[S][Not(which_child)]
        slot == avl_which_child(h, R)
        h1 == SetSlot(h, R_parent, slot, S)
        h2 == SetParent(h1, S, R_parent)
        h3 == SetParent(h2, R, S)
        h4 == SetChild(h3, S, Not(which_child), R)
        h5 == SetChild(h4, R, which_child, B)
        h6 == Reparent(h5, B, R)
    IN  SetBalance(h6, S, h6.avl_balance[R] * (-1))

\* The value avl_rebalance returns in each case.
\* (faulty variant: Case 3 reports a shorter subtree too)
rebalance_ret_always_shorter(case) == 1

rebalance_ret(case) == IF case = 3 THEN 0 ELSE 1

\* avl_rebalance: the heap after the call and the value returned.  The heavy
\* child is dereferenced unchecked; a null one is recorded as a fault.
avl_rebalance(h, node) ==
    LET which_child == avl_balance2idx(h.avl_balance[node])
        child == h.avl_children[node][which_child]
    IN  IF child = NIL
        THEN [h |-> [h EXCEPT !.fault = TRUE], ret |-> 0]
        ELSE
        LET case == IF h.avl_balance[node] = h.avl_balance[child] THEN 1
                    ELSE IF h.avl_balance[child] # 0 THEN 2
                    ELSE 3
            ret == rebalance_ret(case)
            hl == Logged(h, RebalanceCall(h, node, child, case, ret))
        IN  [h |-> CASE case = 1 -> rebalance_case1(hl, node, child, which_child)
                     [] case = 2 -> rebalance_case2(hl, node, child, which_child)
                     [] OTHER -> rebalance_case3(hl, node, child, which_child),
             ret |-> ret]

\* -------------------------------------------------------------- avl_insert

\* The descent (avl.c 368-383): the node found equal, or the empty slot
\* (parent, idx) the descent ended in.
RECURSIVE insert_descend(_, _, _, _, _)
insert_descend(h, node, cur, parent, idx) ==
    IF cur = NIL THEN [found |-> NIL, parent |-> parent, idx |-> idx]
    ELSE LET cmp == avl_cmp(h, node, cur)
         IN  IF cmp = 0 THEN [found |-> cur, parent |-> parent, idx |-> idx]
             ELSE insert_descend(h, node, h.avl_children[cur][avl_cmp2idx(cmp)],
                                 cur, avl_cmp2idx(cmp))

\* The splice (avl.c 386-389).
insert_link(h, node, parent, idx) ==
    LET h1 == SetSlot(h, parent, idx, node)
        h2 == SetParent(h1, node, parent)
        h3 == SetBalance(h2, node, 0)
    IN  SetChild(SetChild(h3, node, 0, NIL), node, 1, NIL)

\* The retrace (avl.c 395-435).
\* (faulty variant: no break after avl_rebalance)
RECURSIVE insert_retrace_continues(_, _, _)
insert_retrace_continues(h, node, parent) ==
    IF parent = NIL THEN h
    ELSE LET which_child == avl_which_child(h, node)
             balance == avl_idx2cmp(which_child)
             abs_balance == avl_abs_balance(h.avl_balance[parent] + balance)
             up == h.avl_parent[parent]
         IN  IF abs_balance = 0
             THEN SetBalance(h, parent, h.avl_balance[parent] + balance)
             ELSE IF abs_balance = 1
             THEN insert_retrace_continues(
                      SetBalance(h, parent, h.avl_balance[parent] + balance), parent, up)
             ELSE LET r == avl_rebalance(h, parent).h
                  IN  insert_retrace_continues(r, r.avl_parent[parent], up)

\* (faulty variant: the balance is stored where avl_rebalance is due)
RECURSIVE insert_retrace_no_rotation(_, _, _)
insert_retrace_no_rotation(h, node, parent) ==
    IF parent = NIL THEN h
    ELSE LET which_child == avl_which_child(h, node)
             balance == avl_idx2cmp(which_child)
             abs_balance == avl_abs_balance(h.avl_balance[parent] + balance)
         IN  IF abs_balance = 0
             THEN SetBalance(h, parent, h.avl_balance[parent] + balance)
             ELSE IF abs_balance = 1
             THEN insert_retrace_no_rotation(
                      SetBalance(h, parent, h.avl_balance[parent] + balance),
                      parent, h.avl_parent[parent])
             ELSE SetBalance(h, parent, h.avl_balance[parent] + balance)

\* (faulty variant: no break when the adjusted balance is 0)
RECURSIVE insert_retrace_past_zero(_, _, _)
insert_retrace_past_zero(h, node, parent) ==
    IF parent = NIL THEN h
    ELSE LET which_child == avl_which_child(h, node)
             balance == avl_idx2cmp(which_child)
             abs_balance == avl_abs_balance(h.avl_balance[parent] + balance)
         IN  IF abs_balance <= 1
             THEN insert_retrace_past_zero(
                      SetBalance(h, parent, h.avl_balance[parent] + balance),
                      parent, h.avl_parent[parent])
             ELSE avl_rebalance(h, parent).h

RECURSIVE insert_retrace(_, _, _)
insert_retrace(h, node, parent) ==
    IF parent = NIL THEN h
    ELSE LET which_child == avl_which_child(h, node)
             balance == avl_idx2cmp(which_child)
             abs_balance == avl_abs_balance(h.avl_balance[parent] + balance)
         IN  IF abs_balance = 0
             THEN SetBalance(h, parent, h.avl_balance[parent] + balance)
             ELSE IF abs_balance = 1
             THEN insert_retrace(SetBalance(h, parent, h.avl_balance[parent] + balance),
                                 parent, h.avl_parent[parent])
             ELSE avl_rebalance(h, parent).h

\* avl_insert: the heap after the call and the node returned.
avl_insert(h, node) ==
    LET d == insert_descend(h, node, h.avl_root, NIL, 0)
    IN  IF d.found # NIL THEN [h |-> h, ret |-> d.found]
        ELSE [h |-> insert_retrace(insert_link(h, node, d.parent, d.idx), node, d.parent),
              ret |-> node]

\* -------------------------------------------------------------- avl_remove

\* The choice of the replacement (avl.c 466-476), and whether the fallback
\* direction was taken.
\* (faulty variant: balance <= 0 selects the predecessor)
remove_select_prefers_prev(h, node) ==
    LET dir == IF h.avl_balance[node] <= 0 THEN -1 ELSE 1
        first == avl_prev_next(h, node, dir)
    IN  IF first # NIL THEN [child |-> first, fallback |-> FALSE]
        ELSE [child |-> avl_prev_next(h, node, dir * (-1)), fallback |-> TRUE]

\* (faulty variant: the side opposite to the balance is tried first)
remove_select_reversed(h, node) ==
    LET dir == IF h.avl_balance[node] < 0 THEN 1 ELSE -1
        first == avl_prev_next(h, node, dir)
    IN  IF first # NIL THEN [child |-> first, fallback |-> FALSE]
        ELSE [child |-> avl_prev_next(h, node, dir * (-1)), fallback |-> TRUE]

remove_select(h, node) ==
    LET dir == IF h.avl_balance[node] < 0 THEN -1 ELSE 1
        first == avl_prev_next(h, node, dir)
    IN  IF first # NIL THEN [child |-> first, fallback |-> FALSE]
        ELSE [child |-> avl_prev_next(h, node, dir * (-1)), fallback |-> TRUE]

\* The replacement takes the place of node (avl.c 478-521): the heap, and the
\* node and side at which the retrace starts.
remove_splice(h, node, child) ==
    LET gchild_idx == avl_balance2idx(h.avl_balance[child])
        gchild == h.avl_children[child][gchild_idx]
        which_child == avl_which_child(h, child)
        direct == h.avl_parent[child] = node
        parent == IF direct THEN child ELSE h.avl_parent[child]
        h1 == IF direct THEN h
              ELSE LET a == SetChild(h, child, which_child,
                                     h.avl_children[node][which_child])
                       b == Reparent(a, a.avl_children[child][which_child], child)
                       c == SetChild(b, parent, which_child, gchild)
                   IN  Reparent(c, gchild, parent)
        h2 == SetChild(h1, child, Not(which_child),
                       h1.avl_children[node][Not(which_child)])
        h3 == Reparent(h2, h2.avl_children[child][Not(which_child)], child)
        h4 == SetBalance(h3, child, h3.avl_balance[node])
        h5 == SetParent(h4, child, h4.avl_parent[node])
        h6 == IF h5.avl_parent[child] = NIL
              THEN [h5 EXCEPT !.avl_root = child]
              ELSE SetChild(h5, h5.avl_parent[node], avl_which_child(h5, node), child)
    IN  [h |-> h6, parent |-> parent, which_child |-> which_child]

\* The retrace (avl.c 528-556).
\* (faulty variant: no break when the adjusted balance has magnitude 1)
RECURSIVE remove_retrace_never_stops(_, _, _)
remove_retrace_never_stops(h, parent, which_child) ==
    IF parent = NIL THEN h
    ELSE LET balance == avl_idx2cmp(which_child) * (-1)
             next_which_child == avl_which_child(h, parent)
             node == parent
             next_parent == h.avl_parent[parent]
             abs_balance == avl_abs_balance(h.avl_balance[node] + balance)
         IN  IF abs_balance <= 1
             THEN remove_retrace_never_stops(
                      SetBalance(h, node, h.avl_balance[node] + balance),
                      next_parent, next_which_child)
             ELSE LET r == avl_rebalance(h, node)
                  IN  IF r.ret = 0 THEN r.h
                      ELSE remove_retrace_never_stops(r.h, next_parent, next_which_child)

\* (faulty variant: the balance moves towards the side that lost a level)
RECURSIVE remove_retrace_wrong_sign(_, _, _)
remove_retrace_wrong_sign(h, parent, which_child) ==
    IF parent = NIL THEN h
    ELSE LET balance == avl_idx2cmp(which_child)
             next_which_child == avl_which_child(h, parent)
             node == parent
             next_parent == h.avl_parent[parent]
             abs_balance == avl_abs_balance(h.avl_balance[node] + balance)
         IN  IF abs_balance = 0
             THEN remove_retrace_wrong_sign(
                      SetBalance(h, node, h.avl_balance[node] + balance),
                      next_parent, next_which_child)
             ELSE IF abs_balance = 1
             THEN SetBalance(h, node, h.avl_balance[node] + balance)
             ELSE LET r == avl_rebalance(h, node)
                  IN  IF r.ret = 0 THEN r.h
                      ELSE remove_retrace_wrong_sign(r.h, next_parent, next_which_child)

RECURSIVE remove_retrace(_, _, _)
remove_retrace(h, parent, which_child) ==
    IF parent = NIL THEN h
    ELSE LET balance == avl_idx2cmp(which_child) * (-1)
             next_which_child == avl_which_child(h, parent)
             node == parent
             next_parent == h.avl_parent[parent]
             abs_balance == avl_abs_balance(h.avl_balance[node] + balance)
         IN  IF abs_balance = 0
             THEN remove_retrace(SetBalance(h, node, h.avl_balance[node] + balance),
                                 next_parent, next_which_child)
             ELSE IF abs_balance = 1
             THEN SetBalance(h, node, h.avl_balance[node] + balance)
             ELSE LET r == avl_rebalance(h, node)
                  IN  IF r.ret = 0 THEN r.h
                      ELSE remove_retrace(r.h, next_parent, next_which_child)

\* The node has no child (avl.c 450-460): it leaves its parent's slot, or the
\* root handle when it was the only node, and then nothing is retraced.
\* (faulty variant: the root handle is not reset)
remove_leaf_keeps_root(h, node) ==
    LET parent == h.avl_parent[node]
    IN  IF parent = NIL THEN [h |-> h, parent |-> NIL, which_child |-> -1]
        ELSE LET which_child == avl_which_child(h, node)
             IN  [h |-> SetChild(h, parent, which_child, NIL),
                  parent |-> parent, which_child |-> which_child]

remove_leaf(h, node) ==
    LET parent == h.avl_parent[node]
    IN  IF parent = NIL
        THEN [h |-> [h EXCEPT !.avl_root = NIL], parent |-> NIL, which_child |-> -1]
        ELSE LET which_child == avl_which_child(h, node)
             IN  [h |-> SetChild(h, parent, which_child, NIL),
                  parent |-> parent, which_child |-> which_child]

\* avl_remove: the heap after the call.  The replacement is dereferenced
\* unchecked; a null one is recorded as a fault.
\* (faulty variant: the links of the removed node are cleared)
avl_remove_clears_node(h, node) ==
    LET r == IF h.avl_children[node][0] = NIL /\ h.avl_children[node][1] = NIL
             THEN LET s == remove_leaf(h, node)
                  IN  remove_retrace(s.h, s.parent, s.which_child)
             ELSE LET sel == remove_select(h, node)
                  IN  IF sel.child = NIL THEN [h EXCEPT !.fault = TRUE]
                      ELSE LET s == remove_splice(h, node, sel.child)
                           IN  remove_retrace(s.h, s.parent, s.which_child)
    IN  SetParent(SetChild(SetChild(r, node, 0, NIL), node, 1, NIL), node, NIL)

avl_remove(h, node) ==
    IF h.avl_children[node][0] = NIL /\ h.avl_children[node][1] = NIL
    THEN LET s == remove_leaf(h, node)
         IN  remove_retrace(s.h, s.parent, s.which_child)
    ELSE LET sel == remove_select(h, node)
         IN  IF sel.child = NIL THEN [h EXCEPT !.fault = TRUE]
             ELSE LET s == remove_splice(h, node, sel.child)
                  IN  remove_retrace(s.h, s.parent, s.which_child)

\* ------------------------------------------------------------- the callers

\* The heap h becomes the state.
Publish(h) ==
    /\ avl_root' = h.avl_root
    /\ avl_children' = h.avl_children
    /\ avl_parent' = h.avl_parent
    /\ avl_balance' = h.avl_balance

Call(op, arg, ret, h) ==
    [op |-> op, arg |-> arg, ret |-> ret, log |-> h.log, fault |-> h.fault]

NoCall == [op |-> "none", arg |-> NIL, ret |-> NIL, log |-> <<>>, fault |-> FALSE]

\* No library call is in progress.  A call in progress has its position pc,
\* its name op and argument arg, its locals node, parent and which_child,
\* whether avl_remove has turned to the other neighbour (fallback), the
\* iterations iter its current loop has made, the avl_rebalance calls (log)
\* and null dereference (fault) so far, and the heap it started on (start).
NoFrame ==
    [pc |-> "idle", op |-> "none", arg |-> NIL, node |-> NIL, parent |-> NIL,
     which_child |-> 0, fallback |-> FALSE, ret |-> NIL, iter |-> 0,
     log |-> <<>>, fault |-> FALSE,
     start |-> [avl_root |-> NIL,
                avl_children |-> [n \in Nodes |-> [i \in 0..1 |-> JUNK]],
                avl_parent |-> [n \in Nodes |-> JUNK],
                avl_balance |-> [n \in Nodes |-> JUNK],
                key |-> [n \in Nodes |-> JUNK],
                log |-> <<>>, fault |-> FALSE]]

\* Before any call: the root handle is a zeroed global (test-main.c 10), the
\* node records are malloc'ed and unwritten (test-main.c 82).
InitMemory ==
    /\ avl_root = NIL
    /\ avl_children = [n \in Nodes |-> [i \in 0..1 |-> JUNK]]
    /\ avl_parent = [n \in Nodes |-> JUNK]
    /\ avl_balance = [n \in Nodes |-> JUNK]
    /\ key = [n \in Nodes |-> JUNK]
    /\ live = {}
    /\ stale = {}
    /\ last = NoCall
    /\ frame = NoFrame

\* The caller is inside the do/while of test-main.c 92-95: its last call of
\* avl_insert returned another record than the one it had passed.
Retrying == last.op = "insert" /\ last.ret # last.arg

\* free(nodes) has been called: the run is over.
Freed == last.op = "free"

\* One pass of the do/while of test-main.c 92-95, for a record that has not
\* been in the tree: nodes[i].key = rand(), here rand() gives k, then
\* ptr = avl_insert(&avlroot, &nodes[i].node, avl_cmp).  While ptr is not the
\* record, the next pass is for the same record.
Insert(node, k) ==
    /\ ~Freed
    /\ node \notin live \cup stale
    /\ Retrying => node = last.arg
    /\ LET h == [Heap EXCEPT !.key[node] = k]
           r == avl_insert(h, node)
       IN  /\ key' = h.key
           /\ Publish(r.h)
           /\ live' = IF r.ret = node THEN live \cup {node} ELSE live
           /\ last' = Call("insert", node, r.ret, r.h)
    /\ UNCHANGED <<stale, frame>>

\* avl_remove(&avlroot, &nodes[i].node), of a record that is in the tree.
Remove(node) ==
    /\ ~Freed /\ ~Retrying
    /\ node \in live
    /\ LET h == avl_remove(Heap, node)
       IN  /\ Publish(h)
           /\ last' = Call("remove", node, NIL, h)
    /\ live' = live \ {node}
    /\ stale' = stale \cup {node}
    /\ UNCHANGED <<key, frame>>

\* free(nodes), after the last removal: the storage of every record is
\* indeterminate again, the root handle (a global) is not part of it.
Free ==
    /\ ~Freed /\ ~Retrying
    /\ live = {} /\ stale # {}
    /\ avl_children' = [n \in Nodes |-> [i \in 0..1 |-> JUNK]]
    /\ avl_parent' = [n \in Nodes |-> JUNK]
    /\ avl_balance' = [n \in Nodes |-> JUNK]
    /\ key' = [n \in Nodes |-> JUNK]
    /\ stale' = {}
    /\ last' = [NoCall EXCEPT !.op = "free"]
    /\ UNCHANGED <<avl_root, live, frame>>

\* The read-only calls: the state keeps only what was asked and returned.
Query(op, arg, ret) ==
    /\ ~Freed /\ ~Retrying
    /\ last' = [NoCall EXCEPT !.op = op, !.arg = arg, !.ret = ret]
    /\ UNCHANGED <<avl_root, avl_children, avl_parent, avl_balance, key, live, stale,
                   frame>>

\* The caller of avl_search passes the key it looks for in a record of its
\* own, KeyNode, which is never in the tree.
KeyNode == NumNodes + 1

KeyHeap(h, k) ==
    [h EXCEPT !.key = [n \in Nodes \cup {KeyNode} |-> IF n = KeyNode THEN k ELSE h.key[n]]]

Search(k) == Query("search", k, avl_search(KeyHeap(Heap, k), KeyNode))

First == Query("first", NIL, avl_first(Heap))

Last == Query("last", NIL, avl_last(Heap))

Prev(node) == node \in live /\ Query("prev", node, avl_prev(Heap, node))

Next_(node) == node \in live /\ Query("next", node, avl_next(Heap, node))

\* ---- Spec: a run like the one of the test's main, on MaxKey records: records
\* are inserted, in any order, then up to AnyRemovals records are removed, in
\* any order, and when that has emptied the tree the records are freed.
\* rand() gives record n the key n, or once more a key that is in the tree.
\* Between the insertions the caller may look things up.
AnyNodes == 1..MaxKey

Draw(node) == {node} \cup {key[m] : m \in live}

AnyInsert(node) ==
    /\ plan.removals = 0
    /\ \E k \in Draw(node) : Insert(node, k)
    /\ UNCHANGED plan

AnyRemove(node) ==
    /\ plan.removals < AnyRemovals
    /\ Remove(node)
    /\ plan' = [plan EXCEPT !.removals = @ + 1]

AnyFree == Free /\ UNCHANGED plan

AnySearch(k) == plan.removals = 0 /\ Search(k) /\ UNCHANGED plan

AnyFirst == plan.removals = 0 /\ First /\ UNCHANGED plan

AnyLast == plan.removals = 0 /\ Last /\ UNCHANGED plan

AnyPrev(node) == plan.removals = 0 /\ Prev(node) /\ UNCHANGED plan

AnyNext(node) == plan.removals = 0 /\ Next_(node) /\ UNCHANGED plan

Init ==
    /\ InitMemory
    /\ plan = [spec |-> "any", n |-> 0, next |-> 0, removals |-> 0]

Next ==
    \/ \E node \in AnyNodes : AnyInsert(node)
    \/ \E node \in AnyNodes : AnyRemove(node)
    \/ AnyFree
    \/ \E k \in AnyNodes : AnySearch(k)
    \/ AnyFirst
    \/ AnyLast
    \/ \E node \in AnyNodes : AnyPrev(node)
    \/ \E node \in AnyNodes : AnyNext(node)

Spec == Init /\ [][Next]_vars

\* ---- SpecSeq: the run of the test's main with keys in ascending order: n
\* records are inserted, record i with the key i (test-main.c 84-101), then
\* every record is removed once, in any order (test-main.c 103-110), then
\* the records are freed (test-main.c 112).
SeqInsert ==
    /\ plan.next <= plan.n
    /\ Insert(plan.next, plan.next)
    /\ plan' = [plan EXCEPT !.next = @ + 1]

SeqRemove(node) ==
    /\ plan.next > plan.n
    /\ Remove(node)
    /\ plan' = [plan EXCEPT !.removals = @ + 1]

SeqFree == plan.removals = plan.n /\ Free /\ UNCHANGED plan

InitSeq ==
    /\ InitMemory
    /\ \E n \in 1..SeqN : plan = [spec |-> "seq", n |-> n, next |-> 1, removals |-> 0]

NextSeq == SeqInsert \/ (\E node \in 1..SeqN : SeqRemove(node)) \/ SeqFree

SpecSeq == InitSeq /\ [][NextSeq]_vars

\* ---- SpecDeep: the keys of DeepOrder are inserted in that order, each by
\* the record of its number, then up to MaxRemovals records are removed, in
\* any order.
DeepInsert ==
    /\ plan.next <= Len(DeepOrder)
    /\ Insert(DeepOrder[plan.next], DeepOrder[plan.next])
    /\ plan' = [plan EXCEPT !.next = @ + 1]

DeepRemove(node) ==
    /\ plan.next > Len(DeepOrder)
    /\ plan.removals < MaxRemovals
    /\ Remove(node)
    /\ plan' = [plan EXCEPT !.removals = @ + 1]

InitDeep ==
    /\ InitMemory
    /\ plan = [spec |-> "deep", n |-> Len(DeepOrder), next |-> 1, removals |-> 0]

NextDeep == DeepInsert \/ \E node \in Nodes : DeepRemove(node)

SpecDeep == InitDeep /\ [][NextDeep]_vars

\* ---- SpecLoop: the library calls run one loop iteration at a time, in a run
\* of Spec up to the return of its first removal (and free(nodes), when that
\* removal has emptied the tree).  A step is a loop test together with the
\* loop body it admits, or the code from one loop to the next; a call that
\* has left its last loop is at "return" and gives its result to the caller
\* in one more step.  A called function keeps running (weak fairness of the
\* steps).

KeepHeap == UNCHANGED <<avl_root, avl_children, avl_parent, avl_balance>>

KeepCaller == UNCHANGED <<key, live, stale, last, plan>>

KeepKeys == UNCHANGED key

\* The heap as the running call sees it, with its log so far.
FrameHeap == [Heap EXCEPT !.log = frame.log, !.fault = frame.fault]

\* The frame of a call that begins.
Enter(op, arg) == [NoFrame EXCEPT !.op = op, !.arg = arg, !.start = Heap]

\* The caller makes a call: the caller's side of every first step.
Calling ==
    /\ frame.pc = "idle"
    /\ ~Freed
    /\ last' = NoCall
    /\ UNCHANGED <<live, stale, plan>>

\* The caller makes a call other than avl_insert.
CallingOther == Calling /\ ~Retrying /\ KeepKeys

\* avl_search up to its loop (avl.c 53).
search_enter(k) ==
    /\ CallingOther
    /\ plan.removals = 0
    /\ frame' = [Enter("search", k) EXCEPT !.pc = "search_loop", !.node = avl_root]
    /\ KeepHeap

\* One test of the loop of avl_search (avl.c 54-65); node is retval.
\* (faulty variant: retval does not move to the child)
search_step_no_advance ==
    /\ frame.pc = "search_loop"
    /\ IF frame.node = NIL
       THEN frame' = [frame EXCEPT !.pc = "return", !.ret = frame.node]
       ELSE LET cmp == avl_cmp(KeyHeap(Heap, frame.arg), KeyNode, frame.node)
            IN  IF cmp = 0
                THEN frame' = [frame EXCEPT !.pc = "return", !.ret = frame.node,
                                            !.iter = @ + 1]
                ELSE frame' = [frame EXCEPT !.iter = @ + 1]
    /\ KeepHeap /\ KeepCaller

search_step ==
    /\ frame.pc = "search_loop"
    /\ IF frame.node = NIL
       THEN frame' = [frame EXCEPT !.pc = "return", !.ret = frame.node]
       ELSE LET cmp == avl_cmp(KeyHeap(Heap, frame.arg), KeyNode, frame.node)
            IN  IF cmp = 0
                THEN frame' = [frame EXCEPT !.pc = "return", !.ret = frame.node,
                                            !.iter = @ + 1]
                ELSE frame' = [frame EXCEPT
                                  !.node = avl_children[frame.node][avl_cmp2idx(cmp)],
                                  !.iter = @ + 1]
    /\ KeepHeap /\ KeepCaller

\* avl_leftmost_rightmost up to its loop (avl.c 106-108), in the frame f;
\* parent is prev.
leftmost_rightmost_enter(f, dir) ==
    [f EXCEPT !.pc = "leftmost_rightmost_loop", !.which_child = avl_cmp2idx(dir),
              !.parent = NIL, !.node = avl_root]

\* avl_first (avl.c 123-127) and avl_last (avl.c 134-138).
first_enter ==
    /\ CallingOther
    /\ plan.removals = 0
    /\ frame' = leftmost_rightmost_enter(Enter("first", NIL), -1)
    /\ KeepHeap

last_enter ==
    /\ CallingOther
    /\ plan.removals = 0
    /\ frame' = leftmost_rightmost_enter(Enter("last", NIL), 1)
    /\ KeepHeap

\* One test of the loop of avl_leftmost_rightmost (avl.c 110-115).
leftmost_rightmost_step ==
    /\ frame.pc = "leftmost_rightmost_loop"
    /\ IF frame.node # NIL
       THEN frame' = [frame EXCEPT
                         !.parent = frame.node,
                         !.node = avl_children[frame.node][frame.which_child],
                         !.iter = @ + 1]
       ELSE frame' = [frame EXCEPT !.pc = "return", !.ret = frame.parent]
    /\ KeepHeap /\ KeepCaller

\* avl_prev_next(node, dir) up to one of its loops (avl.c 80-84 and 88), in
\* the frame f.
prev_next_enter(f, node, dir) ==
    LET which_child == avl_cmp2idx(dir)
    IN  IF avl_children[node][which_child] # NIL
        THEN [f EXCEPT !.pc = "prev_next_descend", !.which_child = which_child,
                       !.node = avl_children[node][which_child], !.iter = 0]
        ELSE [f EXCEPT !.pc = "prev_next_climb", !.which_child = which_child,
                       !.node = node, !.parent = avl_parent[node], !.iter = 0]

\* avl_prev (avl.c 145-149) and avl_next (avl.c 156-160) of a node of the tree.
prev_enter(node) ==
    /\ CallingOther
    /\ plan.removals = 0
    /\ node \in live
    /\ frame' = prev_next_enter(Enter("prev", node), node, -1)
    /\ KeepHeap

next_enter(node) ==
    /\ CallingOther
    /\ plan.removals = 0
    /\ node \in live
    /\ frame' = prev_next_enter(Enter("next", node), node, 1)
    /\ KeepHeap

\* avl_prev_next returns child.  In avl_prev and avl_next that is the result.
\* In avl_remove (avl.c 466-522) an absent neighbour makes it look on the
\* other side, once; the neighbour found is dereferenced unchecked and takes
\* the place of the node, and the retrace begins.
prev_next_return(child) ==
    IF frame.op # "remove"
    THEN frame' = [frame EXCEPT !.pc = "return", !.ret = child] /\ KeepHeap
    ELSE IF child = NIL /\ ~frame.fallback
    THEN /\ frame' = prev_next_enter([frame EXCEPT !.fallback = TRUE], frame.arg,
                                     IF avl_balance[frame.arg] < 0 THEN 1 ELSE -1)
         /\ KeepHeap
    ELSE IF child = NIL
    THEN frame' = [frame EXCEPT !.pc = "return", !.fault = TRUE] /\ KeepHeap
    ELSE LET s == remove_splice(FrameHeap, frame.arg, child)
         IN  /\ Publish(s.h)
             /\ frame' = [frame EXCEPT !.pc = "remove_retrace", !.parent = s.parent,
                                       !.which_child = s.which_child, !.iter = 0]

\* One test of the descending loop of avl_prev_next (avl.c 85-87).
prev_next_descend_step ==
    /\ frame.pc = "prev_next_descend"
    /\ IF avl_children[frame.node][Not(frame.which_child)] # NIL
       THEN /\ frame' = [frame EXCEPT
                            !.node = avl_children[frame.node][Not(frame.which_child)],
                            !.iter = @ + 1]
            /\ KeepHeap
       ELSE prev_next_return(frame.node)
    /\ KeepCaller

\* One test of the climbing loop of avl_prev_next (avl.c 89-94).
prev_next_climb_step ==
    /\ frame.pc = "prev_next_climb"
    /\ IF frame.parent # NIL /\ avl_children[frame.parent][frame.which_child] = frame.node
       THEN /\ frame' = [frame EXCEPT !.node = frame.parent,
                                      !.parent = avl_parent[frame.parent],
                                      !.iter = @ + 1]
            /\ KeepHeap
       ELSE prev_next_return(frame.parent)
    /\ KeepCaller

\* A pass of the do/while of test-main.c 92-95 begins: the key k is written
\* (test-main.c 93) and avl_insert runs up to its first loop (avl.c 365-367);
\* node is cur, which_child the slot curp of parent.
insert_enter(node) ==
    /\ Calling
    /\ plan.removals = 0
    /\ node \notin live \cup stale
    /\ Retrying => node = last.arg
    /\ \E k \in Draw(node) :
          /\ key' = [key EXCEPT ![node] = k]
          /\ frame' = [Enter("insert", node) EXCEPT
                          !.pc = "insert_descend", !.node = avl_root, !.parent = NIL,
                          !.start = [Heap EXCEPT !.key[node] = k]]
    /\ KeepHeap

\* One test of the descent of avl_insert (avl.c 368-383); when it ends the
\* node is linked in (avl.c 386-389) and the retrace begins.
insert_descend_step ==
    /\ frame.pc = "insert_descend"
    /\ IF frame.node = NIL
       THEN /\ Publish(insert_link(FrameHeap, frame.arg, frame.parent, frame.which_child))
            /\ frame' = [frame EXCEPT !.pc = "insert_retrace", !.node = frame.arg,
                                      !.iter = 0]
       ELSE LET cmp == avl_cmp(Heap, frame.arg, frame.node)
            IN  /\ IF cmp = 0
                   THEN frame' = [frame EXCEPT !.pc = "return", !.ret = frame.node,
                                               !.iter = @ + 1]
                   ELSE frame' = [frame EXCEPT
                                     !.which_child = avl_cmp2idx(cmp),
                                     !.parent = frame.node,
                                     !.node = avl_children[frame.node][avl_cmp2idx(cmp)],
                                     !.iter = @ + 1]
                /\ KeepHeap
    /\ KeepCaller

\* One test of the retrace of avl_insert (avl.c 395-436).
insert_retrace_step ==
    /\ frame.pc = "insert_retrace"
    /\ IF frame.parent = NIL
       THEN frame' = [frame EXCEPT !.pc = "return", !.ret = frame.arg] /\ KeepHeap
       ELSE LET h == FrameHeap
                parent == frame.parent
                which_child == avl_which_child(h, frame.node)
                balance == avl_idx2cmp(which_child)
                abs_balance == avl_abs_balance(h.avl_balance[parent] + balance)
            IN  IF abs_balance = 0
                THEN /\ Publish(SetBalance(h, parent, h.avl_balance[parent] + balance))
                     /\ frame' = [frame EXCEPT !.pc = "return", !.ret = frame.arg,
                                               !.iter = @ + 1]
                ELSE IF abs_balance = 1
                THEN /\ Publish(SetBalance(h, parent, h.avl_balance[parent] + balance))
                     /\ frame' = [frame EXCEPT !.node = parent,
                                               !.parent = h.avl_parent[parent],
                                               !.iter = @ + 1]
                ELSE LET r == avl_rebalance(h, parent).h
                     IN  /\ Publish(r)
                         /\ frame' = [frame EXCEPT !.pc = "return", !.ret = frame.arg,
                                                   !.log = r.log, !.fault = r.fault,
                                                   !.iter = @ + 1]
    /\ KeepCaller

\* avl_remove up to its first loop, of the first record the caller removes: a node
\* without children is unlinked (avl.c 450-460), for another one the
\* neighbour on the side of its balance is looked for (avl.c 466-476).
remove_enter(node) ==
    /\ CallingOther
    /\ stale = {}
    /\ node \in live
    /\ IF avl_children[node][0] = NIL /\ avl_children[node][1] = NIL
       THEN LET s == remove_leaf(Heap, node)
            IN  /\ Publish(s.h)
                /\ frame' = [Enter("remove", node) EXCEPT
                                !.pc = IF s.parent = NIL THEN "return" ELSE "remove_retrace",
                                !.parent = s.parent,
                                !.which_child = IF s.parent = NIL THEN 0 ELSE s.which_child]
       ELSE /\ frame' = prev_next_enter(Enter("remove", node), node,
                                        IF avl_balance[node] < 0 THEN -1 ELSE 1)
            /\ KeepHeap

\* One test of the retrace of avl_remove (avl.c 528-557).
remove_retrace_step ==
    /\ frame.pc = "remove_retrace"
    /\ IF frame.parent = NIL
       THEN frame' = [frame EXCEPT !.pc = "return"] /\ KeepHeap
       ELSE LET h == FrameHeap
                balance == avl_idx2cmp(frame.which_child) * (-1)
                next_which_child == avl_which_child(h, frame.parent)
                node == frame.parent
                next_parent == h.avl_parent[frame.parent]
                abs_balance == avl_abs_balance(h.avl_balance[node] + balance)
                onward == [frame EXCEPT !.which_child = next_which_child,
                                        !.node = node, !.parent = next_parent,
                                        !.iter = @ + 1]
            IN  IF abs_balance = 0
                THEN /\ Publish(SetBalance(h, node, h.avl_balance[node] + balance))
                     /\ frame' = onward
                ELSE IF abs_balance = 1
                THEN /\ Publish(SetBalance(h, node, h.avl_balance[node] + balance))
                     /\ frame' = [onward EXCEPT !.pc = "return"]
                ELSE LET r == avl_rebalance(h, node)
                     IN  /\ Publish(r.h)
                         /\ frame' = [onward EXCEPT
                                         !.pc = IF r.ret = 0 THEN "return" ELSE @,
                                         !.log = r.h.log, !.fault = r.h.fault]
    /\ KeepCaller

\* The call returns to the caller (test-main.c 92-95 and 105), who notes what
\* is in the tree now.
call_return ==
    /\ frame.pc = "return"
    /\ frame' = NoFrame
    /\ last' = [op |-> frame.op, arg |-> frame.arg, ret |-> frame.ret,
                log |-> frame.log, fault |-> frame.fault]
    /\ live' = IF frame.op = "insert" /\ frame.ret = frame.arg THEN live \cup {frame.arg}
               ELSE IF frame.op = "remove" THEN live \ {frame.arg}
               ELSE live
    /\ stale' = IF frame.op = "remove" THEN stale \cup {frame.arg} ELSE stale
    /\ plan' = IF frame.op = "remove" THEN [plan EXCEPT !.removals = @ + 1] ELSE plan
    /\ KeepHeap
    /\ KeepKeys

\* free(nodes), when no call is in progress.
LoopFree == frame.pc = "idle" /\ Free /\ UNCHANGED plan

\* The steps of a call in progress.
LoopStep ==
    \/ search_step
    \/ leftmost_rightmost_step
    \/ prev_next_descend_step
    \/ prev_next_climb_step
    \/ insert_descend_step
    \/ insert_retrace_step
    \/ remove_retrace_step
    \/ call_return

InitLoop ==
    /\ InitMemory
    /\ plan = [spec |-> "loop", n |-> 0, next |-> 0, removals |-> 0]

NextLoop ==
    \/ \E k \in AnyNodes : search_enter(k)
    \/ first_enter
    \/ last_enter
    \/ \E node \in AnyNodes : prev_enter(node)
    \/ \E node \in AnyNodes : next_enter(node)
    \/ \E node \in AnyNodes : insert_enter(node)
    \/ \E node \in AnyNodes : remove_enter(node)
    \/ LoopFree
    \/ LoopStep

SpecLoop == InitLoop /\ [][NextLoop]_vars /\ WF_vars(LoopStep)

\* ----------------------------------------------------- what the claims use

\* avl_check of the test (test-main.c 47-74): the height of the subtree of
\* node, and whether both of its assertions hold in all of it.
RECURSIVE avl_check(_, _)
avl_check(h, node) ==
    LET l == h.avl_children[node][0]
        r == h.avl_children[node][1]
        lc == IF l # NIL THEN avl_check(h, l) ELSE [height |-> -1, ok |-> TRUE]
        rc == IF r # NIL THEN avl_check(h, r) ELSE [height |-> -1, ok |-> TRUE]
        lheight == lc.height + 1
        rheight == rc.height + 1
        height_diff == rheight - lheight
    IN  [height |-> IF rheight < lheight THEN lheight ELSE rheight,
         ok |-> /\ lc.ok
                /\ rc.ok
                /\ height_diff = h.avl_balance[node]
                /\ avl_abs_balance(height_diff) < 2]

\* The height of the tree, avl_check's result at the root (-1: empty).
TreeHeight(h) == IF h.avl_root = NIL THEN -1 ELSE avl_check(h, h.avl_root).height

\* The nodes the child links lead to from the root handle, found in rounds
\* (so that the search ends on any heap).
RECURSIVE ReachRounds(_, _, _)
ReachRounds(h, seen, frontier) ==
    IF frontier = {} THEN seen
    ELSE LET kids == {h.avl_children[n][i] : n \in frontier, i \in 0..1}
             new == (kids \cap Nodes) \ seen
         IN  ReachRounds(h, seen \cup new, new)

Members(h) ==
    IF h.avl_root \in Nodes THEN ReachRounds(h, {h.avl_root}, {h.avl_root}) ELSE {}

\* The heap of the next state.
HeapNext ==
    [avl_root |-> avl_root', avl_children |-> avl_children',
     avl_parent |-> avl_parent', avl_balance |-> avl_balance',
     key |-> key', log |-> <<>>, fault |-> FALSE]

Left(h, n) == h.avl_children[n][0]

Right(h, n) == h.avl_children[n][1]

\* Height of the subtree of a child pointer (an absent child: -1).
SubHeight(h, c) == IF c = NIL THEN -1 ELSE avl_check(h, c).height

\* Every node of the tree stores the height difference of its subtrees, and
\* that difference is -1, 0 or 1.
BalanceOK(h) ==
    \A n \in Members(h) :
        /\ h.avl_balance[n] = SubHeight(h, Right(h, n)) - SubHeight(h, Left(h, n))
        /\ h.avl_balance[n] \in {-1, 0, 1}

\* The links are consistent and form a tree.
LinksOK(h) ==
    LET M == Members(h)
        slots == {s \in M \X (0..1) : h.avl_children[s[1]][s[2]] # NIL}
    IN  /\ h.avl_root \in Nodes \cup {NIL}
        /\ h.avl_root # NIL => h.avl_parent[h.avl_root] = NIL
        /\ \A s \in slots :
              LET c == h.avl_children[s[1]][s[2]]
              IN  c \in Nodes /\ c # h.avl_root /\ h.avl_parent[c] = s[1]
        /\ \A n \in M \ {h.avl_root} :
              /\ h.avl_parent[n] \in M
              /\ Cardinality({i \in 0..1 : h.avl_children[h.avl_parent[n]][i] = n}) = 1
        /\ M # {} => Cardinality(slots) = Cardinality(M) - 1

\* avl_first, then avl_next until it returns none: the nodes visited, in
\* order (at most fuel + 1 of them).
RECURSIVE Walk(_, _, _)
Walk(h, node, fuel) ==
    IF node \notin Nodes THEN <<>>
    ELSE IF fuel = 0 THEN <<node>>
    ELSE <<node>> \o Walk(h, avl_next(h, node), fuel - 1)

Traversal(h) == Walk(h, avl_first(h), NumNodes)

\* The member of the tree whose key compares equal to k.
Holder(h, k) ==
    LET eq == {m \in Members(h) : h.key[m] = k}
    IN  IF eq = {} THEN NIL ELSE CHOOSE m \in eq : TRUE

\* The proper ancestors of a node, by the parent links.
RECURSIVE Ancestors(_, _, _)
Ancestors(h, n, fuel) ==
    IF fuel = 0 \/ h.avl_parent[n] \notin Nodes THEN {}
    ELSE {h.avl_parent[n]} \cup Ancestors(h, h.avl_parent[n], fuel - 1)

\* ------------------------------------------------------------- the claims

\* C1: after any sequence of avl_insert calls and of avl_remove calls on
\* member nodes, from the empty tree, every node of the tree stores the height
\* of its right subtree minus the height of its left subtree, and that value
\* is -1, 0 or 1.
C1_BalanceInvariant == BalanceOK(Heap)

\* A removal that rotated has left a tree of several nodes, not all balanced.
C1_Witness ==
    /\ last.op = "remove"
    /\ Len(last.log) >= 1
    /\ Cardinality(Members(Heap)) >= 4
    /\ \E n \in Members(Heap) : avl_balance[n] # 0

\* C2: after any sequence of avl_insert and avl_remove calls, avl_first and
\* then avl_next until it returns none visit the nodes in strictly increasing
\* key order, and they visit exactly the nodes inserted and not since removed,
\* each once.
C2_TraversalSorted ==
    LET t == Traversal(Heap)
    IN  /\ \A i \in 1..(Len(t) - 1) : key[t[i]] < key[t[i + 1]]
        /\ {t[i] : i \in 1..Len(t)} = live
        /\ Len(t) = Cardinality(live)

\* After a removal that spliced a replacement, the walk visits five nodes or
\* more.
C2_Witness ==
    /\ last.op = "remove"
    /\ avl_children[last.arg][0] \in Nodes
    /\ avl_children[last.arg][1] \in Nodes
    /\ Len(Traversal(Heap)) >= 5

\* C3: after every completed avl_insert or avl_remove call the root has no
\* parent, every other node of the tree is in exactly one child slot of its
\* avl_parent, every present child's avl_parent is the node holding the slot,
\* and the child links from the root handle form a tree.
C3_LinksConsistent == LinksOK(Heap)

\* A removal of a node with two children that also rotated.
C3_Witness ==
    /\ last.op = "remove"
    /\ avl_children[last.arg][0] \in Nodes
    /\ avl_children[last.arg][1] \in Nodes
    /\ Len(last.log) >= 1
    /\ avl_root # NIL

\* C4: avl_insert of a node whose key compares equal to the key of a node of
\* the tree returns that node and writes nothing: no field of a node of the
\* tree, not the root handle, no field of the new node.  (The key of the new
\* node's record is what the caller wrote before the call.)
C4_DuplicateInsert ==
    [][\A node \in Nodes : \A k \in Nodes :
          (Insert(node, k) /\ Holder(Heap, k) # NIL) =>
              /\ last'.ret = Holder(Heap, k)
              /\ UNCHANGED <<avl_root, avl_children, avl_parent, avl_balance>>
              /\ key' = [key EXCEPT ![node] = k]]_vars

\* A duplicate was refused in favour of a node that is not the root; the new
\* node's storage is as the caller allocated it.
C4_Witness ==
    /\ last.op = "insert"
    /\ last.ret # last.arg
    /\ last.ret \in Members(Heap)
    /\ key[last.ret] = key[last.arg]
    /\ avl_parent[last.ret] # NIL
    /\ avl_parent[last.arg] = JUNK

\* C5: avl_search returns the node of the tree whose key compares equal to
\* the probe's when there is one and none otherwise, and changes nothing.
C5_Search ==
    [][\A k \in Nodes :
          Search(k) =>
              /\ last'.ret = Holder(Heap, k)
              /\ UNCHANGED <<avl_root, avl_children, avl_parent, avl_balance>>]_vars

\* A search found the node of the key it sought two levels or more below the root.
C5_Witness ==
    /\ last.op = "search"
    /\ last.ret \in Members(Heap)
    /\ key[last.ret] = last.arg
    /\ Cardinality(Ancestors(Heap, last.ret, NumNodes)) >= 2

\* The tree of three nodes with key 2 at the root over the keys 1 and 3, all
\* balanced (in Spec and in SpecSeq the record with key k <= 3 is record k).
Tree213(h) ==
    /\ h.avl_root = 2
    /\ h.avl_parent[2] = NIL /\ Left(h, 2) = 1 /\ Right(h, 2) = 3
    /\ h.avl_parent[1] = 2 /\ Left(h, 1) = NIL /\ Right(h, 1) = NIL
    /\ h.avl_parent[3] = 2 /\ Left(h, 3) = NIL /\ Right(h, 3) = NIL
    /\ h.avl_balance[1] = 0 /\ h.avl_balance[2] = 0 /\ h.avl_balance[3] = 0
    /\ h.key[1] = 1 /\ h.key[2] = 2 /\ h.key[3] = 3

\* C6, as claimed: avl_remove of the node with key 2 from that tree leaves
\* exactly the keys 1 and 3, consistent links, and balance 0 at the new root.
C6_AsClaimed ==
    [][(Tree213(Heap) /\ Remove(2)) =>
          /\ {key'[n] : n \in Members(HeapNext)} = {1, 3}
          /\ LinksOK(HeapNext)
          /\ avl_balance'[avl_root'] = 0]_vars

\* C6, amended: the same removal leaves exactly the keys 1 and 3 with
\* consistent links; the new root is the node with key 3, its only child is
\* the node with key 1 on its left, and its balance is -1.
C6_RemoveRootOfThree ==
    [][(Tree213(Heap) /\ Remove(2)) =>
          /\ {key'[n] : n \in Members(HeapNext)} = {1, 3}
          /\ Cardinality(Members(HeapNext)) = 2
          /\ LinksOK(HeapNext)
          /\ key'[avl_root'] = 3
          /\ avl_balance'[avl_root'] = -1
          /\ avl_children'[avl_root'][0] # NIL
          /\ key'[avl_children'[avl_root'][0]] = 1
          /\ avl_children'[avl_root'][1] = NIL]_vars

\* The node with key 2 has just been removed from that tree: its own fields
\* still show it as the root over 1 and 3, and 1 and 3 are what is left.
C6_Witness ==
    /\ last.op = "remove"
    /\ last.arg = 2
    /\ key[2] = 2
    /\ avl_parent[2] = NIL /\ avl_children[2][0] = 1 /\ avl_children[2][1] = 3
    /\ avl_balance[2] = 0
    /\ Members(Heap) = {1, 3}

\* C7, as claimed: one avl_remove call invokes avl_rebalance at most once.
C7_AsClaimed == last.op = "remove" => Len(last.log) <= 1

\* C7, amended: one avl_remove call invokes avl_rebalance at most once at
\* each node of its retrace path, each time at a node above the one before,
\* and so at most (height of the tree before the call) / 2 times.
C7_RemoveRebalances ==
    [][\A node \in Nodes :
          Remove(node) =>
              /\ Len(last'.log) <= TreeHeight(Heap) \div 2
              /\ \A i \in 1..(Len(last'.log) - 1) :
                    last'.log[i + 1].node \in Ancestors(Heap, last'.log[i].node, NumNodes)]_vars

\* One removal has invoked avl_rebalance twice.
C7_Witness == last.op = "remove" /\ Len(last.log) = 2

\* C8: after n keys were inserted in increasing order, each removal leaves
\* exactly the nodes not removed yet in the tree, and when all n nodes have
\* been removed the root handle is empty.
C8_RemoveAll ==
    (plan.next > plan.n /\ ~Freed) =>
        /\ Members(Heap) = (1..plan.n) \ stale
        /\ Cardinality(stale) = plan.removals
        /\ plan.removals = plan.n => avl_root = NIL

\* The last of SeqN nodes has been removed.
C8_Witness ==
    /\ plan.n = SeqN
    /\ plan.removals = plan.n
    /\ last.op = "remove"
    /\ avl_root = NIL

\* C9: for every node x of the tree that is neither the first nor the last,
\* avl_prev(avl_next(x)) is x and avl_next(avl_prev(x)) is x.
C9_PrevNextInverse ==
    \A x \in Members(Heap) \ {avl_first(Heap), avl_last(Heap)} :
        /\ avl_next(Heap, x) \in Nodes
        /\ avl_prev(Heap, avl_next(Heap, x)) = x
        /\ avl_prev(Heap, x) \in Nodes
        /\ avl_next(Heap, avl_prev(Heap, x)) = x

\* avl_next was called on an interior node and returned a node that is
\* neither its parent nor its child; avl_prev leads back from it.
C9_Witness ==
    /\ last.op = "next"
    /\ last.arg \notin {avl_first(Heap), avl_last(Heap)}
    /\ last.ret \in Nodes
    /\ avl_parent[last.ret] # last.arg
    /\ avl_parent[last.arg] # last.ret
    /\ avl_prev(Heap, last.ret) = last.arg

\* C10: one avl_insert call invokes avl_rebalance at most once; when it does,
\* the retrace ends there (no balance above the rotated node changes), and
\* after the call every balance is -1, 0 or 1 and the real height difference.
C10_InsertRebalancesOnce ==
    [][\A node \in Nodes : \A k \in Nodes :
          Insert(node, k) =>
              /\ Len(last'.log) <= 1
              /\ BalanceOK(HeapNext)
              /\ Len(last'.log) = 1 =>
                    \A a \in Ancestors(Heap, last'.log[1].node, NumNodes) :
                        avl_balance'[a] = avl_balance[a]]_vars

\* An insertion rotated at a node that is not the root.
C10_Witness ==
    /\ last.op = "insert"
    /\ last.ret = last.arg
    /\ Len(last.log) = 1
    /\ avl_parent[last.log[1].node] # NIL
    /\ Ancestors(Heap, last.log[1].node, NumNodes) # {avl_root}

\* C11: avl_remove only unlinks the removed node: after the call neither the
\* root handle nor a child slot nor the avl_parent of a node remaining in the
\* tree refers to it, and its own avl_children, avl_parent and avl_balance
\* hold the values they had before the call.
C11_RemoveOnlyUnlinks ==
    [][\A node \in Nodes :
          Remove(node) =>
              /\ avl_root' # node
              /\ node \notin Members(HeapNext)
              /\ \A m \in Members(HeapNext) :
                    /\ avl_parent'[m] # node
                    /\ avl_children'[m][0] # node
                    /\ avl_children'[m][1] # node
              /\ avl_children'[node] = avl_children[node]
              /\ avl_parent'[node] = avl_parent[node]
              /\ avl_balance'[node] = avl_balance[node]]_vars

\* A node below the root with two children and a stored balance other than 0
\* has been removed: its fields still name its former parent and children,
\* which are in the tree and linked elsewhere.
C11_Witness ==
    /\ last.op = "remove"
    /\ avl_balance[last.arg] \in {-1, 1}
    /\ avl_parent[last.arg] \in Members(Heap)
    /\ avl_children[last.arg][0] \in Members(Heap)
    /\ avl_children[last.arg][1] \in Members(Heap)
    /\ avl_parent[avl_children[last.arg][0]] # last.arg
    /\ avl_parent[avl_children[last.arg][1]] # last.arg

\* C12: inserting the keys 1, 2, 3 in that order into an empty tree rotates
\* exactly once, in the third call and by Case 1, and ends with key 2 at the
\* root, key 1 as its left child and key 3 as its right child, all three with
\* balance 0.
C12_InsertOneTwoThree ==
    (plan.removals = 0 /\ plan.next \in 2..4) =>
        /\ last.op = "insert" /\ last.arg = plan.next - 1 /\ last.ret = last.arg
        /\ plan.next \in 2..3 => last.log = <<>>
        /\ plan.next = 4 =>
              /\ Len(last.log) = 1
              /\ last.log[1].case = 1
              /\ last.log[1].node = 1
              /\ Members(Heap) = {1, 2, 3}
              /\ Tree213(Heap)

\* The third key has just been inserted and the call rotated.
C12_Witness ==
    /\ plan.next = 4
    /\ plan.removals = 0
    /\ last.op = "insert"
    /\ last.arg = 3
    /\ Len(last.log) = 1
    /\ avl_root = 2

\* Natural numbers of any size, as sequences of base-10000 digits with the
\* least significant digit first (the integers of TLC are 32 bits
\* wide).  BigTimes(a, k, carry) is a * k + carry for k, carry < 10000.
RECURSIVE BigTimes(_, _, _)
BigTimes(a, k, carry) ==
    IF a = <<>> THEN (IF carry = 0 THEN <<>> ELSE <<carry>>)
    ELSE <<(Head(a) * k + carry) % 10000>>
             \o BigTimes(Tail(a), k, (Head(a) * k + carry) \div 10000)

\* a + b + carry.
RECURSIVE BigAdd(_, _, _)
BigAdd(a, b, carry) ==
    IF a = <<>> /\ b = <<>> THEN (IF carry = 0 THEN <<>> ELSE <<carry>>)
    ELSE LET x == (IF a = <<>> THEN 0 ELSE Head(a))
                      + (IF b = <<>> THEN 0 ELSE Head(b)) + carry
         IN  <<x % 10000>> \o BigAdd(IF a = <<>> THEN <<>> ELSE Tail(a),
                                     IF b = <<>> THEN <<>> ELSE Tail(b),
                                     x \div 10000)

\* a * b, for a and b other than zero.
RECURSIVE BigMul(_, _)
BigMul(a, b) ==
    IF Len(b) = 1 THEN BigTimes(a, Head(b), 0)
    ELSE BigAdd(BigTimes(a, Head(b), 0), <<0>> \o BigMul(a, Tail(b)), 0)

\* k to the power e, for 1 <= k < 10000, by repeated squaring.
RECURSIVE BigPower(_, _)
BigPower(k, e) ==
    IF e = 0 THEN <<1>>
    ELSE LET half == BigPower(k, e \div 2)
             square == BigMul(half, half)
         IN  IF e % 2 = 0 THEN square ELSE BigTimes(square, k, 0)

\* a <= b, for numbers without leading zero digits.
RECURSIVE BigLeq(_, _)
BigLeq(a, b) ==
    IF Len(a) # Len(b) THEN Len(a) < Len(b)
    ELSE IF a = <<>> THEN TRUE
    ELSE IF a[Len(a)] # b[Len(a)] THEN a[Len(a)] < b[Len(a)]
    ELSE BigLeq(SubSeq(a, 1, Len(a) - 1), SubSeq(b, 1, Len(a) - 1))

\* height <= 1.44 * log2(n + 2), exactly: 1.44 is 36/25, so the bound is
\* 2^(25 * height) <= (n + 2)^36.
WithinHeightBound(height, n) ==
    height <= 0 \/ BigLeq(BigPower(2, 25 * height), BigPower(n + 2, 36))

\* C13: at every point while n strictly increasing keys are inserted and then
\* removed in any order, the height of the tree as avl_check computes it (a
\* single node has height 0, here the empty tree -1) is at most
\* 1.44 * log2(n + 2), n being the number of keys inserted; it is even at most
\* 1.44 * log2(m + 2) for the m nodes in the tree at that point.
C13_HeightBound ==
    /\ WithinHeightBound(TreeHeight(Heap), plan.n)
    /\ WithinHeightBound(TreeHeight(Heap), Cardinality(live))
    /\ Cardinality(live) <= plan.n

\* All SeqN keys were inserted and some removed; the tree is as high as a
\* tree of its size can be.
C13_Witness ==
    /\ plan.n = SeqN
    /\ plan.removals >= 1
    /\ last.op = "remove"
    /\ TreeHeight(Heap) = 2
    /\ Cardinality(live) = 4

\* What the call of the frame f returns, and the heap it leaves, computed at
\* once on the heap the call started on.
Outcome(f) ==
    CASE f.op = "search" ->
             [h |-> f.start, ret |-> avl_search(KeyHeap(f.start, f.arg), KeyNode)]
      [] f.op = "first" -> [h |-> f.start, ret |-> avl_first(f.start)]
      [] f.op = "last" -> [h |-> f.start, ret |-> avl_last(f.start)]
      [] f.op = "prev" -> [h |-> f.start, ret |-> avl_prev(f.start, f.arg)]
      [] f.op = "next" -> [h |-> f.start, ret |-> avl_next(f.start, f.arg)]
      [] f.op = "insert" -> avl_insert(f.start, f.arg)
      [] OTHER -> [h |-> avl_remove(f.start, f.arg), ret |-> NIL]

\* Between calls the tree satisfies the structural and the balance
\* invariants.
C14_TreeValid == frame.pc = "idle" => LinksOK(Heap) /\ BalanceOK(Heap)

\* No loop of a call has made more iterations than the tree the call started
\* on has levels (its height + 1).
C14_Bounded == frame.pc # "idle" => frame.iter <= TreeHeight(frame.start) + 1

\* A call that has left its last loop has the result and has left the heap
\* that the call is defined to.
C14_Result ==
    frame.pc = "return" =>
        /\ frame.ret = Outcome(frame).ret
        /\ FrameHeap = Outcome(frame).h

\* C14: on a tree satisfying the structural and balance invariants, every
\* call of avl_search, avl_first, avl_last, avl_prev, avl_next, avl_insert and
\* avl_remove (of a member) terminates: each of its loops makes at most
\* height + 1 iterations, and the call returns, with its result.
C14_Terminates ==
    /\ [](C14_TreeValid /\ C14_Bounded /\ C14_Result)
    /\ (frame.pc # "idle") ~> (frame.pc = "idle")

\* A removal is about to return whose retrace went up two nodes or more and
\* rotated on the way, in a tree of height 3.
C14_Witness ==
    /\ frame.pc = "return"
    /\ frame.op = "remove"
    /\ TreeHeight(frame.start) = 3
    /\ frame.iter >= 2
    /\ Len(frame.log) >= 1

\* C15: Case 3 of avl_rebalance is never taken during an avl_insert call:
\* whenever avl_insert calls avl_rebalance on an ancestor, the child on that
\* ancestor's heavy side has a balance other than 0.  Case 3 is reached only
\* from avl_remove.
C15_NoCase3InInsert ==
    \A i \in 1..Len(last.log) :
        /\ last.log[i].case = 3 <=> last.log[i].child_balance = 0
        /\ last.op = "insert" =>
              /\ last.log[i].case \in {1, 2}
              /\ last.log[i].child_balance \in {-1, 1}
        /\ last.log[i].case = 3 => last.op = "remove"

\* An insertion has called avl_rebalance on a node whose heavy child leaned
\* the other way (Case 2).
C15_Witness ==
    /\ last.op = "insert"
    /\ Len(last.log) = 1
    /\ last.log[1].case = 2
    /\ last.log[1].child_balance = last.log[1].balance * (-1)

\* C16: the value avl_rebalance returns reports the height change of the
\* rotated subtree: 1 exactly when the subtree now in the rotated node's slot
\* is one level shorter than the node's subtree was at the call (Cases 1 and
\* 2), 0 exactly when the height is the same (Case 3); avl_remove stops its
\* retrace on 0 and continues at the parent of the rotated node on 1.
C16_RebalanceReportsHeight ==
    [][((insert_retrace_step \/ remove_retrace_step)
            /\ Len(frame'.log) = Len(frame.log) + 1) =>
          LET c == frame'.log[Len(frame'.log)]
              top == avl_parent'[c.node]
              before == SubHeight(Heap, c.node)
              after == SubHeight(HeapNext, top)
          IN  /\ c.node = frame.parent
              /\ top \in Nodes
              /\ avl_parent'[top] = avl_parent[c.node]
              /\ IF avl_parent[c.node] = NIL THEN avl_root' = top
                 ELSE avl_children'[avl_parent[c.node]][avl_which_child(Heap, c.node)] = top
              /\ c.ret \in {0, 1}
              /\ c.ret = 1 <=> after = before - 1
              /\ c.ret = 0 <=> after = before
              /\ c.ret = 1 <=> c.case \in {1, 2}
              /\ c.ret = 0 <=> c.case = 3
              /\ frame.op = "remove" =>
                    /\ c.ret = 0 => frame'.pc = "return"
                    /\ c.ret = 1 =>
                          /\ frame'.pc = "remove_retrace"
                          /\ frame'.parent = avl_parent[c.node]
                          /\ frame'.which_child = avl_which_child(Heap, c.node)]_vars

\* The retrace of a removal has rotated below the root, was told 1, and is
\* about to go on at the parent of the rotated node.
C16_Witness ==
    /\ frame.op = "remove"
    /\ frame.pc = "remove_retrace"
    /\ Len(frame.log) >= 1
    /\ frame.log[Len(frame.log)].ret = 1
    /\ frame.parent # NIL
    /\ frame.node = frame.log[Len(frame.log)].node

\* C17: in avl_insert the retrace stops at the ancestor whose adjusted balance
\* is 0 and changes no field of a node above it; when no rotation occurs,
\* avl_insert changes only the new node's fields, one child slot of its
\* parent (the root handle when the tree was empty), and the balances of the
\* ancestors on the path from the new leaf up to the one where it stops, each
\* by one towards the side of the path.
C17_InsertFrame ==
    [][\A node \in Nodes : \A k \in Nodes :
          (Insert(node, k) /\ last'.ret = node /\ last'.log = <<>>) =>
              LET parent == avl_parent'[node]
                  changed == {m \in Nodes \ {node} : avl_balance'[m] # avl_balance[m]}
              IN  /\ avl_children'[node] = [i \in 0..1 |-> NIL]
                  /\ avl_balance'[node] = 0
                  /\ avl_root' = IF avl_root = NIL THEN node ELSE avl_root
                  /\ parent = NIL <=> avl_root = NIL
                  /\ \A m \in Nodes \ {node} :
                        /\ avl_parent'[m] = avl_parent[m]
                        /\ m # parent => avl_children'[m] = avl_children[m]
                  /\ parent # NIL =>
                        /\ parent \in changed
                        /\ \E i \in 0..1 :
                              /\ avl_children[parent][i] = NIL
                              /\ avl_children'[parent] = [avl_children[parent] EXCEPT ![i] = node]
                  /\ changed \subseteq Ancestors(HeapNext, node, NumNodes)
                  /\ \A m \in changed :
                        /\ \E c \in changed \cup {node} :
                              /\ avl_parent'[c] = m
                              /\ c # node => avl_balance'[c] # 0
                              /\ avl_balance'[m] =
                                     avl_balance[m] + avl_idx2cmp(avl_which_child(HeapNext, c))
                        /\ avl_balance'[m] = 0 =>
                              \A a \in Ancestors(HeapNext, m, NumNodes) : a \notin changed
                        /\ (avl_balance'[m] # 0 /\ avl_parent'[m] # NIL) =>
                              avl_parent'[m] \in changed]_vars

\* An insertion without rotation whose retrace stopped at the parent of the
\* new leaf with balance 0; the grandparent above it leans to one side, as
\* before.
C17_Witness ==
    /\ last.op = "insert"
    /\ last.ret = last.arg
    /\ last.log = <<>>
    /\ avl_parent[last.arg] \in Nodes
    /\ avl_balance[avl_parent[last.arg]] = 0
    /\ avl_parent[avl_parent[last.arg]] \in Nodes
    /\ avl_balance[avl_parent[avl_parent[last.arg]]] # 0

\* C18: in avl_remove of a node with at least one child, the neighbour tried
\* first (the predecessor when the node's balance is negative, the successor
\* otherwise) exists and is a descendant of the node, so the other side is
\* never tried and the replacement is never an ancestor of the node; the
\* replacement has no child on the side facing the node's key.
C18_ReplacementIsDescendant ==
    [][\A node \in Nodes :
          (Remove(node) /\ (avl_children[node][0] # NIL \/ avl_children[node][1] # NIL)) =>
              LET sel == remove_select(Heap, node)
                  dir == IF avl_balance[node] < 0 THEN -1 ELSE 1
                  facing == avl_cmp2idx(dir * (-1))
              IN  /\ BalanceOK(Heap)
                  /\ sel.fallback = FALSE
                  /\ sel.child \in Nodes
                  /\ sel.child = avl_prev_next(Heap, node, dir)
                  /\ node \in Ancestors(Heap, sel.child, NumNodes)
                  /\ sel.child \notin Ancestors(Heap, node, NumNodes)
                  /\ IF dir < 0 THEN key[sel.child] < key[node]
                                ELSE key[sel.child] > key[node]
                  /\ avl_children[sel.child][facing] = NIL
                  /\ last'.fault = FALSE]_vars

\* A node with two children that leaned to the left has been removed, and its
\* predecessor, which was not its child, has taken its place above its former
\* children.
C18_Witness ==
    /\ last.op = "remove"
    /\ avl_balance[last.arg] < 0
    /\ avl_children[last.arg][0] \in Members(Heap)
    /\ avl_children[last.arg][1] \in Members(Heap)
    /\ avl_parent[avl_children[last.arg][0]] = avl_parent[avl_children[last.arg][1]]
    /\ key[avl_parent[avl_children[last.arg][0]]] < key[last.arg]
    /\ key[avl_parent[avl_children[last.arg][0]]] > key[avl_children[last.arg][0]]

\* C19: whenever avl_insert or avl_remove calls avl_rebalance, the node's
\* stored balance is +1 or -1 and the child on that side is present, and when
\* Case 2 is selected the heavy child's child on the opposite side (Q) is
\* present; so avl_rebalance never dereferences an absent node.
C19_RebalanceOperandsPresent ==
    /\ last.fault = FALSE
    /\ \A i \in 1..Len(last.log) :
          /\ last.op \in {"insert", "remove"}
          /\ last.log[i].balance \in {-1, 1}
          /\ last.log[i].child \in Nodes
          /\ last.log[i].case = 2 <=> last.log[i].child_balance = last.log[i].balance * (-1)
          /\ last.log[i].case = 2 => last.log[i].inner \in Nodes

\* A removal has called avl_rebalance on a node below the root and Case 2 was
\* selected; the inner grandchild is now the parent of the node and of its
\* formerly heavy child.
C19_Witness ==
    /\ last.op = "remove"
    /\ Len(last.log) = 1
    /\ last.log[1].case = 2
    /\ last.log[1].inner \in Members(Heap)
    /\ avl_parent[last.log[1].node] = last.log[1].inner
    /\ avl_parent[last.log[1].child] = last.log[1].inner
    /\ avl_parent[last.log[1].inner] # NIL

====
